---- MODULE Spec2Model ----
(***************************************************************************)
(* DNSSEC chain-of-trust validation of dnsviz-tui:                         *)
(*   dns/resolver.py  get_zone_hierarchy, _query, query_dnskeys, query_ds, *)
(*                    query_zone_chain                                     *)
(*   dns/records.py   estimate_key_length, parse_dnskey, parse_ds,         *)
(*                    parse_rrsig                                          *)
(*   dns/dnssec.py    _compute_ds_digest, _validate_ds_to_dnskey,          *)
(*                    _validate_rrsig_timing, _validate_root_zone,         *)
(*                    validate_chain                                       *)
(*                                                                         *)
(* Strings that the code takes apart (domains, zone names) are sequences   *)
(* of one-character strings.  Hash values are terms over their input (an   *)
(* idealised, collision-free hash).                                        *)
(***************************************************************************)
EXTENDS Integers, Sequences, FiniteSets, TLC

VARIABLES
    domain,      \* the domain argument of validate_chain / get_zone_hierarchy
    pc,          \* position of the call: "idle", "querying", "queried", "done", "hier"
    hierarchy,   \* query_zone_chain: hierarchy (also the result of get_zone_hierarchy)
    zones,       \* query_zone_chain: the zones list under construction
    nxnames,     \* environment: zone names for which the resolver answered NXDOMAIN
    malformed,   \* environment: zone names whose DNSKEY answer held an unparseable record
    now,         \* the clock reading (datetime.utcnow) used by the timing checks
    chain,       \* the TrustChain of validate_chain
    nameservers, \* DNSResolver.resolver.nameservers, shared by the application and the validator
    queried,     \* environment: the nameserver lists that the queries of the validation went to
    ns_replies,  \* environment: the authoritative servers of a zone and their direct replies
    queries,     \* environment: the queries query_zone_chain has made, in order
    is_loading,  \* DNSVizApp._is_loading
    workers      \* the threads started for _query_domain: domain and position of each

vars == <<domain, pc, hierarchy, zones, nxnames, malformed, now, chain,
          nameservers, queried, ns_replies, queries, is_loading, workers>>

----------------------------------------------------------------------------
(* Bounds *)

MaxLen == 11        \* longest domain string given to get_zone_hierarchy
MaxKeys == 2        \* most DNSKEY records in one answer
MaxDS == 1          \* most DS records in one answer
MaxSigs == 1        \* most RRSIG records in one answer
MaxTime == 2        \* largest clock reading
MaxDomainLen == 4   \* longest domain string given to query_zone_chain alone
MaxNs == 3          \* most authoritative servers found for a zone
MaxWorkers == 3     \* most worker threads the application starts

Chars == {"a", "."}

\* every string over Chars of length at most n
Strings(n) == UNION {[1..k -> Chars] : k \in 0..n}

----------------------------------------------------------------------------
(* Python string operations used by the resolver *)

\* str.endswith('.')
EndsWithDot(s) == Len(s) > 0 /\ s[Len(s)] = "."

\* str.rstrip('.'): removes every trailing dot
RECURSIVE RStripDots(_)
RStripDots(s) ==
    IF EndsWithDot(s) THEN RStripDots(SubSeq(s, 1, Len(s) - 1)) ELSE s

\* index of the first dot of s, 0 if there is none
FirstDot(s) ==
    IF \E i \in 1..Len(s) : s[i] = "."
    THEN CHOOSE i \in 1..Len(s) : s[i] = "." /\ \A j \in 1..(i - 1) : s[j] # "."
    ELSE 0

\* str.split('.'): "" gives [""], "a..b" gives ["a", "", "b"]
RECURSIVE SplitDots(_)
SplitDots(s) ==
    IF FirstDot(s) = 0
    THEN <<s>>
    ELSE <<SubSeq(s, 1, FirstDot(s) - 1)>>
            \o SplitDots(SubSeq(s, FirstDot(s) + 1, Len(s)))

\* ".".join(parts)
RECURSIVE JoinDots(_)
JoinDots(parts) ==
    IF Len(parts) = 0 THEN <<>>
    ELSE IF Len(parts) = 1 THEN parts[1]
    ELSE parts[1] \o <<".">> \o JoinDots(Tail(parts))

\* x in list
InSeq(x, s) == \E i \in 1..Len(s) : s[i] = x

\* the normalisation at the head of get_zone_hierarchy
Normalise(d) == IF ~EndsWithDot(d) THEN d \o <<".">> ELSE d

RootName == <<".">>

\* the loop "for i in range(len(parts) - 1, -1, -1)" (i is 1-based here)
RECURSIVE HierarchyLoop(_, _, _)
HierarchyLoop(parts, i, acc) ==
    IF i = 0 THEN acc
    ELSE LET zone == JoinDots(SubSeq(parts, i, Len(parts))) \o <<".">>
         IN  HierarchyLoop(parts, i - 1,
                 IF zone # RootName /\ ~InSeq(zone, acc)
                 THEN Append(acc, zone) ELSE acc)

\* a get_zone_hierarchy that splits the domain as given, without
\* normalising it and without stripping the trailing dots
GetZoneHierarchyNoStrip(d) ==
    LET parts == SplitDots(d)
    IN  HierarchyLoop(parts, Len(parts), <<RootName>>)

\* a get_zone_hierarchy that emits the suffixes without the root in front
GetZoneHierarchyNoRoot(d) ==
    LET parts == SplitDots(RStripDots(Normalise(d)))
    IN  HierarchyLoop(parts, Len(parts), <<>>)

GetZoneHierarchy(d) ==
    LET parts == SplitDots(RStripDots(Normalise(d)))
    IN  HierarchyLoop(parts, Len(parts), <<RootName>>)

----------------------------------------------------------------------------
(* Record codec: dns/records.py and models/chain.py *)

None == -1          \* Python None in an Optional[int] field
NoParent == <<>>    \* Python None in ZoneInfo.parent

\* wire bytes of a DNSKEY RDATA: flags (2) + protocol (1) + algorithm (1) + key
RdataBytes(flags, protocol, algorithm, key) ==
    <<flags \div 256, flags % 256, protocol, algorithm>> \o key

\* sum of the 16-bit big-endian words of a byte string
RECURSIVE WordSum(_, _)
WordSum(bytes, i) ==
    IF i > Len(bytes) THEN 0
    ELSE (IF i % 2 = 1 THEN bytes[i] * 256 ELSE bytes[i]) + WordSum(bytes, i + 1)

\* dns.dnssec.key_id, the RFC 4034 Appendix B checksum (algorithms other than 1)
KeyId(rdata) ==
    LET ac == WordSum(RdataBytes(rdata.flags, rdata.protocol,
                                 rdata.algorithm, rdata.key), 1)
    IN  (ac + ((ac \div 65536) % 65536)) % 65536

\* base64.b64encode / base64.b64decode
B64Encode(bytes) == <<"b64", bytes>>
B64Decode(text) == text[2]

\* estimate_key_length; raised stands for the IndexError of key_data[n]
EstimateKeyLength(algorithm, key_data) ==
    IF algorithm \in {1, 5, 7, 8, 10}
    THEN IF Len(key_data) < 1
         THEN [raised |-> TRUE, value |-> 0]
         ELSE IF key_data[1] = 0
              THEN IF Len(key_data) < 3
                   THEN [raised |-> TRUE, value |-> 0]
                   ELSE [raised |-> FALSE,
                         value |-> (Len(key_data) - 3
                                    - (key_data[2] * 256 + key_data[3])) * 8]
              ELSE [raised |-> FALSE,
                    value |-> (Len(key_data) - 1 - key_data[1]) * 8]
    ELSE IF algorithm = 13 THEN [raised |-> FALSE, value |-> 256]
    ELSE IF algorithm = 14 THEN [raised |-> FALSE, value |-> 384]
    ELSE IF algorithm = 15 THEN [raised |-> FALSE, value |-> 256]
    ELSE IF algorithm = 16 THEN [raised |-> FALSE, value |-> 448]
    ELSE [raised |-> FALSE, value |-> Len(key_data) * 8]

\* DNSKeyInfo with __post_init__
DNSKeyInfo(flags, protocol, algorithm, key_tag, key_data, key_length) ==
    [flags |-> flags, protocol |-> protocol, algorithm |-> algorithm,
     key_tag |-> key_tag, key_data |-> key_data, key_length |-> key_length,
     is_ksk |-> (flags % 2 = 1), is_zsk |-> (flags % 2 = 0)]

\* RecordFormatter.parse_dnskey; raised when estimate_key_length raises
ParseDnskeyRaises(rdata) == EstimateKeyLength(rdata.algorithm, rdata.key).raised

ParseDnskey(rdata) ==
    DNSKeyInfo(rdata.flags, rdata.protocol, rdata.algorithm, KeyId(rdata),
               B64Encode(rdata.key),
               EstimateKeyLength(rdata.algorithm, rdata.key).value)

\* byte strings that carry a digest: the output of a hash function is the
\* term (alg, owner name, RDATA); alg 0 is a byte string no hash produces
EmptyBytes == [alg |-> 0, name |-> <<>>, rdata |-> <<>>]
OtherBytes(tok) == [alg |-> 0, name |-> <<tok>>, rdata |-> <<>>]
HashBytes(alg, name, rdata) == [alg |-> alg, name |-> name, rdata |-> rdata]

\* hex text of a byte string: bytes.hex() and hashlib's hexdigest() are
\* lower case; the empty string has no case
EmptyStr == [bytes |-> EmptyBytes, case |-> "none"]
Hex(bytes) ==
    IF bytes = EmptyBytes THEN EmptyStr ELSE [bytes |-> bytes, case |-> "lower"]
\* str.upper()
Upper(text) ==
    IF text.case = "none" THEN text ELSE [text EXCEPT !.case = "upper"]

\* RecordFormatter.parse_ds
ParseDs(rdata) ==
    [key_tag |-> rdata.key_tag, algorithm |-> rdata.algorithm,
     digest_type |-> rdata.digest_type, digest |-> Upper(Hex(rdata.digest)),
     validates_key |-> None]

\* RecordFormatter.parse_rrsig
ParseRrsig(rdata) ==
    [type_covered |-> rdata.type_covered, key_tag |-> rdata.key_tag,
     expiration |-> rdata.expiration, inception |-> rdata.inception,
     is_valid |-> "None", validation_error |-> "None"]

\* an is_expired that counts the expiration instant itself as expired
IsExpiredInclusive(rrsig, t) == t >= rrsig.expiration

\* RRSIGInfo.is_expired / is_not_yet_valid at clock reading t
IsExpired(rrsig, t) == t > rrsig.expiration
IsNotYetValid(rrsig, t) == t < rrsig.inception

\* ZoneInfo(name=zone)
ZoneInfo(name) ==
    [name |-> name, parent |-> NoParent, status |-> "UNKNOWN",
     status_reason |-> [text |-> "", args |-> <<>>],
     dnskeys |-> <<>>, ds_records |-> <<>>, rrsigs |-> <<>>,
     ds_validated |-> FALSE, dnskey_validated |-> FALSE,
     chain_complete |-> FALSE,
     additional_records |-> <<>>, consistency |-> <<>>]

\* ZoneInfo.get_key_by_tag, as the truth value the callers test
HasKeyByTag(zone, tag) ==
    \E i \in 1..Len(zone.dnskeys) : zone.dnskeys[i].key_tag = tag

\* TrustChain(target_domain=domain)
TrustChain(d) ==
    [target_domain |-> d, zones |-> <<>>, overall_status |-> "UNKNOWN",
     overall_reason |-> [text |-> "", zone |-> <<>>, detail |-> ""],
     resolver_used |-> <<>>]

\* ", ".join(names)
RECURSIVE JoinComma(_)
JoinComma(names) ==
    IF names = <<>> THEN <<>>
    ELSE IF Len(names) = 1 THEN names
    ELSE <<names[1], ", ">> \o JoinComma(Tail(names))

\* the nameservers of a resolver made by DNSResolver(): the system's
SystemResolvers == <<"system">>

\* a status_reason / overall_reason with its interpolated values
Reason(text, args) == [text |-> text, args |-> args]

----------------------------------------------------------------------------
(* Wire records the model's DNS serves *)

\* the root KSK-2017: its key id is 20326 and its SHA-256 DS digest under
\* "." is the digest of the first trust anchor
KSK2017 == [flags |-> 257, protocol |-> 3, algorithm |-> 8, key |-> <<1, 1, 74, 92>>]
\* a key-signing key (SEP bit set) and a zone-signing key
KSKb == [flags |-> 257, protocol |-> 3, algorithm |-> 8, key |-> <<1, 1, 7>>]
ZSKa == [flags |-> 256, protocol |-> 3, algorithm |-> 8, key |-> <<1, 3, 5>>]
\* an RSA DNSKEY whose public key field is empty
BadKey == [flags |-> 257, protocol |-> 3, algorithm |-> 8, key |-> <<>>]

\* IANA root trust anchors
ROOT_DS_RECORDS ==
    << [key_tag |-> 20326, algorithm |-> 8, digest_type |-> 2,
        digest |-> [bytes |-> HashBytes(2, RootName,
                                 RdataBytes(257, 3, 8, <<1, 1, 74, 92>>)),
                    case |-> "upper"]],
       [key_tag |-> 38696, algorithm |-> 8, digest_type |-> 2,
        digest |-> [bytes |-> OtherBytes("683D2D0A"), case |-> "upper"]] >>

----------------------------------------------------------------------------
(* Validator: dns/dnssec.py *)

\* _compute_ds_digest that hashes the DNSKEY RDATA without the owner name
ComputeDsDigestNoOwner(zone_name, dnskey, digest_type) ==
    LET rdata == RdataBytes(dnskey.flags, dnskey.protocol, dnskey.algorithm,
                            B64Decode(dnskey.key_data))
    IN  IF digest_type \in {1, 2, 4}
        THEN Upper(Hex(HashBytes(digest_type, <<>>, rdata)))
        ELSE EmptyStr

\* _compute_ds_digest: 1 = SHA-1, 2 = SHA-256, 4 = SHA-384 over
\* owner name (wire format) + DNSKEY RDATA, hex, upper case
ComputeDsDigest(zone_name, dnskey, digest_type) ==
    LET rdata == RdataBytes(dnskey.flags, dnskey.protocol, dnskey.algorithm,
                            B64Decode(dnskey.key_data))
    IN  IF digest_type \in {1, 2, 4}
        THEN Upper(Hex(HashBytes(digest_type, zone_name, rdata)))
        ELSE EmptyStr

\* the three tests of the inner loops of _validate_ds_to_dnskey and
\* _validate_root_zone
KeyMatches(zone_name, key, ds) ==
    /\ key.key_tag = ds.key_tag
    /\ key.algorithm = ds.algorithm
    /\ Upper(ComputeDsDigest(zone_name, key, ds.digest_type)) = Upper(ds.digest)

\* the candidate keys: the KSKs, or all keys when there is no KSK
Candidates(zone) ==
    LET ksks == SelectSeq(zone.dnskeys, LAMBDA k : k.is_ksk)
    IN  IF ksks = <<>> THEN zone.dnskeys ELSE ksks

\* the key tag that "for key in ksks" stores in ds.validates_key, None if
\* no candidate matches
MatchTag(zone_name, ksks, ds) ==
    IF \E i \in 1..Len(ksks) : KeyMatches(zone_name, ksks[i], ds)
    THEN ksks[CHOOSE i \in 1..Len(ksks) :
                 /\ KeyMatches(zone_name, ksks[i], ds)
                 /\ \A j \in 1..(i - 1) : ~KeyMatches(zone_name, ksks[j], ds)].key_tag
    ELSE None

\* the entries of failed_ds
RECURSIVE FailedDs(_, _, _)
FailedDs(zone, ds_records, i) ==
    IF i > Len(ds_records) THEN <<>>
    ELSE (IF MatchTag(zone.name, Candidates(zone), ds_records[i]) # None
          THEN <<>>
          ELSE IF HasKeyByTag(zone, ds_records[i].key_tag)
               THEN << <<ds_records[i].key_tag, "digest mismatch">> >>
               ELSE << <<ds_records[i].key_tag, "no matching DNSKEY">> >>)
         \o FailedDs(zone, ds_records, i + 1)

\* the elements of a sequence, as list(set(...)) keeps them
Unique(s) == {s[i] : i \in 1..Len(s)}

\* a _validate_ds_to_dnskey that stops at the first DS record that matches
ValidateDsToDnskeyFirstOnly(zone, ds_records) ==
    IF ds_records = <<>>
    THEN [valid |-> FALSE, reason |-> Reason("No DS records in parent zone", <<>>),
          tag |-> None, ds_records |-> ds_records]
    ELSE IF zone.dnskeys = <<>>
    THEN [valid |-> FALSE, reason |-> Reason("No DNSKEY records in zone", <<>>),
          tag |-> None, ds_records |-> ds_records]
    ELSE
      LET ksks == Candidates(zone)
          marked == [i \in 1..Len(ds_records) |->
                        [ds_records[i] EXCEPT
                            !.validates_key =
                                IF /\ MatchTag(zone.name, ksks, ds_records[i]) # None
                                   /\ \A j \in 1..(i - 1) :
                                          MatchTag(zone.name, ksks, ds_records[j]) = None
                                THEN MatchTag(zone.name, ksks, ds_records[i])
                                ELSE @]]
          validated == SelectSeq(marked, LAMBDA d : d.validates_key # None)
          validated_tags == [i \in 1..Len(validated) |-> validated[i].validates_key]
          failed_ds == FailedDs(zone, ds_records, 1)
      IN  IF validated_tags # <<>>
          THEN [valid |-> TRUE,
                reason |-> Reason("DS validates DNSKEY", <<validated_tags[1]>>),
                tag |-> validated_tags[1], ds_records |-> marked]
          ELSE IF failed_ds # <<>>
          THEN [valid |-> FALSE, reason |-> Reason("DS validation failed", failed_ds),
                tag |-> None, ds_records |-> marked]
          ELSE [valid |-> FALSE,
                reason |-> Reason("No DS record matches any DNSKEY", <<>>),
                tag |-> None, ds_records |-> marked]

\* _validate_ds_to_dnskey: (is_valid, reason, matching_key_tag) and the DS
\* records with validates_key as the call leaves them.  matching_key_tag
\* is unique_tags[0], an element of set(validated_tags): the first
\* validated tag stands for it.
ValidateDsToDnskey(zone, ds_records) ==
    IF ds_records = <<>>
    THEN [valid |-> FALSE, reason |-> Reason("No DS records in parent zone", <<>>),
          tag |-> None, ds_records |-> ds_records]
    ELSE IF zone.dnskeys = <<>>
    THEN [valid |-> FALSE, reason |-> Reason("No DNSKEY records in zone", <<>>),
          tag |-> None, ds_records |-> ds_records]
    ELSE
      LET ksks == Candidates(zone)
          marked == [i \in 1..Len(ds_records) |->
                        [ds_records[i] EXCEPT
                            !.validates_key =
                                IF MatchTag(zone.name, ksks, ds_records[i]) # None
                                THEN MatchTag(zone.name, ksks, ds_records[i])
                                ELSE @]]
          validated == SelectSeq(marked, LAMBDA d : d.validates_key # None)
          validated_tags == [i \in 1..Len(validated) |-> validated[i].validates_key]
          failed_ds == FailedDs(zone, ds_records, 1)
      IN  IF validated_tags # <<>>
          THEN [valid |-> TRUE,
                reason |-> IF Len(ds_records) > 1
                           THEN Reason("DS validates DNSKEY(s)",
                                    <<Unique(validated_tags), Len(validated_tags),
                                      Len(ds_records)>>)
                           ELSE Reason("DS validates DNSKEY", <<validated_tags[1]>>),
                tag |-> validated_tags[1], ds_records |-> marked]
          ELSE IF failed_ds # <<>>
          THEN [valid |-> FALSE, reason |-> Reason("DS validation failed", failed_ds),
                tag |-> None, ds_records |-> marked]
          ELSE [valid |-> FALSE,
                reason |-> Reason("No DS record matches any DNSKEY", <<>>),
                tag |-> None, ds_records |-> marked]

\* the loop of _validate_rrsig_timing from the i-th RRSIG on, at clock
\* reading t: (is_valid, reason) and the RRSIGs as the call leaves them
RECURSIVE TimingLoop(_, _, _, _)
TimingLoop(zone, rrsigs, i, t) ==
    IF i > Len(rrsigs)
    THEN [valid |-> TRUE, reason |-> Reason("RRSIG timing valid", <<>>),
          rrsigs |-> rrsigs]
    ELSE IF rrsigs[i].type_covered = "DNSKEY"
    THEN IF IsExpired(rrsigs[i], t)
         THEN [valid |-> FALSE,
               reason |-> Reason("DNSKEY RRSIG expired on", <<rrsigs[i].expiration>>),
               rrsigs |-> [rrsigs EXCEPT ![i].is_valid = "False",
                                         ![i].validation_error = "Signature expired"]]
         ELSE IF IsNotYetValid(rrsigs[i], t)
         THEN [valid |-> FALSE,
               reason |-> Reason("DNSKEY RRSIG not valid until", <<rrsigs[i].inception>>),
               rrsigs |-> [rrsigs EXCEPT ![i].is_valid = "False",
                                         ![i].validation_error = "Signature not yet valid"]]
         ELSE IF HasKeyByTag(zone, rrsigs[i].key_tag)
         THEN TimingLoop(zone, [rrsigs EXCEPT ![i].is_valid = "True"], i + 1, t)
         ELSE TimingLoop(zone,
                  [rrsigs EXCEPT ![i].is_valid = "False",
                                 ![i].validation_error = "Signing key not found"],
                  i + 1, t)
    ELSE TimingLoop(zone, rrsigs, i + 1, t)

\* a _validate_rrsig_timing that accepts every RRSIG
ValidateRrsigTimingAlways(zone, t) ==
    [valid |-> TRUE, reason |-> Reason("RRSIG timing valid", <<>>),
     rrsigs |-> zone.rrsigs]

\* _validate_rrsig_timing
ValidateRrsigTiming(zone, t) == TimingLoop(zone, zone.rrsigs, 1, t)

\* some DNSKEY of the zone matches the trust anchor
AnchorMatches(zone, anchor) ==
    \E i \in 1..Len(zone.dnskeys) : KeyMatches(RootName, zone.dnskeys[i], anchor)

\* the key tag _validate_root_zone reports: anchors in the outer loop,
\* DNSKEYs in the inner one
AnchorMatchTag(zone) ==
    LET a == CHOOSE a \in 1..Len(ROOT_DS_RECORDS) :
                 /\ AnchorMatches(zone, ROOT_DS_RECORDS[a])
                 /\ \A b \in 1..(a - 1) : ~AnchorMatches(zone, ROOT_DS_RECORDS[b])
    IN  MatchTag(RootName, zone.dnskeys, ROOT_DS_RECORDS[a])

\* a _validate_root_zone without the fallback to a KSK
ValidateRootZoneNoFallback(zone) ==
    IF zone.name # RootName
    THEN [valid |-> FALSE, reason |-> Reason("Not the root zone", <<>>)]
    ELSE IF zone.dnskeys = <<>>
    THEN [valid |-> FALSE,
          reason |-> Reason("Root zone has no DNSKEY records (DNS query may have failed)", <<>>)]
    ELSE IF \E a \in 1..Len(ROOT_DS_RECORDS) : AnchorMatches(zone, ROOT_DS_RECORDS[a])
    THEN [valid |-> TRUE,
          reason |-> Reason("Root DNSKEY matches trust anchor", <<AnchorMatchTag(zone)>>)]
    ELSE [valid |-> FALSE,
          reason |-> Reason("No root DNSKEY matches trust anchor",
                            [i \in 1..Len(zone.dnskeys) |-> zone.dnskeys[i].key_tag])]

\* a _validate_root_zone that accepts any root that has DNSKEYs
ValidateRootZoneAnyKey(zone) ==
    IF zone.name # RootName
    THEN [valid |-> FALSE, reason |-> Reason("Not the root zone", <<>>)]
    ELSE IF zone.dnskeys = <<>>
    THEN [valid |-> FALSE,
          reason |-> Reason("Root zone has no DNSKEY records (DNS query may have failed)", <<>>)]
    ELSE [valid |-> TRUE,
          reason |-> Reason("Root has KSK(s) (trust anchor verification skipped)", <<>>)]

\* _validate_root_zone
ValidateRootZone(zone) ==
    IF zone.name # RootName
    THEN [valid |-> FALSE, reason |-> Reason("Not the root zone", <<>>)]
    ELSE IF zone.dnskeys = <<>>
    THEN [valid |-> FALSE,
          reason |-> Reason("Root zone has no DNSKEY records (DNS query may have failed)", <<>>)]
    ELSE IF \E a \in 1..Len(ROOT_DS_RECORDS) : AnchorMatches(zone, ROOT_DS_RECORDS[a])
    THEN [valid |-> TRUE,
          reason |-> Reason("Root DNSKEY matches trust anchor", <<AnchorMatchTag(zone)>>)]
    ELSE IF SelectSeq(zone.dnskeys, LAMBDA k : k.is_ksk) # <<>>
    THEN [valid |-> TRUE,
          reason |-> Reason("Root has KSK(s) (trust anchor verification skipped)",
                            [i \in 1..Len(SelectSeq(zone.dnskeys, LAMBDA k : k.is_ksk)) |->
                                SelectSeq(zone.dnskeys, LAMBDA k : k.is_ksk)[i].key_tag])]
    ELSE [valid |-> FALSE,
          reason |-> Reason("No root DNSKEY matches trust anchor",
                            [i \in 1..Len(zone.dnskeys) |-> zone.dnskeys[i].key_tag])]


\* the state of the loop "for zone in zones[1:]" of validate_chain: the
\* zones as mutated so far, parent_zone (an index), all_secure, and the
\* chain status once a return statement was reached
LoopState(zs, parent, all_secure, returned, status, reason) ==
    [zones |-> zs, parent |-> parent, all_secure |-> all_secure,
     returned |-> returned, overall_status |-> status, overall_reason |-> reason]

ChainReason(text, name, detail) == [text |-> text, zone |-> name, detail |-> detail]

\* "if matched_tag and ...": None and 0 are false
Truthy(tag) == tag # None /\ tag # 0

\* the zone list once the zone at index i has been written to
SetZone(st, i, z) == [st.zones EXCEPT ![i] = z]

\* "zone.status = BOGUS; chain.overall_status = BOGUS; return chain"
ZoneBogus(st, i, z, reason, detail) ==
    LoopState(SetZone(st, i, [z EXCEPT !.status = "BOGUS", !.status_reason = reason]),
              st.parent, st.all_secure, TRUE, "BOGUS",
              ChainReason("Zone", z.name, detail))

\* an INSECURE branch that returns the chain instead of continuing
ZoneInsecureReturns(st, i, z, text) ==
    LoopState(SetZone(st, i, [z EXCEPT !.status = "INSECURE",
                                       !.status_reason = Reason(text, <<>>)]),
              i, FALSE, TRUE, st.overall_status, st.overall_reason)

\* an INSECURE branch that leaves parent_zone as it was
ZoneInsecureKeepParent(st, i, z, text) ==
    LoopState(SetZone(st, i, [z EXCEPT !.status = "INSECURE",
                                       !.status_reason = Reason(text, <<>>)]),
              st.parent, FALSE, FALSE, st.overall_status, st.overall_reason)

\* "zone.status = INSECURE; all_secure = False; parent_zone = zone; continue"
ZoneInsecure(st, i, z, text) ==
    LoopState(SetZone(st, i, [z EXCEPT !.status = "INSECURE",
                                       !.status_reason = Reason(text, <<>>)]),
              i, FALSE, FALSE, st.overall_status, st.overall_reason)

\* an end of the iteration that lets an inconsistent zone be INDETERMINATE
ZoneStepSignedConsistent(st, i, zone2, tag) ==
    LET covering == SelectSeq(zone2.rrsigs, LAMBDA r : r.type_covered = "DNSKEY")
        signed == /\ covering # <<>>
                  /\ \/ Truthy(tag) /\ covering[1].key_tag = tag
                     \/ HasKeyByTag(zone2, covering[1].key_tag)
        zone3 == [zone2 EXCEPT !.dnskey_validated = IF signed THEN TRUE ELSE @]
        consistent == IF zone3.consistency = <<>> THEN TRUE
                      ELSE zone3.consistency[1].is_consistent
    IN
    IF zone3.ds_validated /\ consistent
    THEN LoopState(SetZone(st, i, [zone3 EXCEPT !.status = "SECURE",
                                       !.status_reason = Reason("Chain validated", <<>>),
                                       !.chain_complete = TRUE]),
                   i, st.all_secure, FALSE, st.overall_status, st.overall_reason)
    ELSE LoopState(SetZone(st, i, [zone3 EXCEPT !.status = "INDETERMINATE",
                                       !.status_reason =
                                           Reason("Could not fully validate", <<>>)]),
                   i, FALSE, FALSE, st.overall_status, st.overall_reason)

\* the end of an iteration: dnskey_validated from the first RRSIG that
\* covers DNSKEY, then the status of the zone; tag is matched_tag
ZoneStepSigned(st, i, zone2, tag) ==
    LET covering == SelectSeq(zone2.rrsigs, LAMBDA r : r.type_covered = "DNSKEY")
        signed == /\ covering # <<>>
                  /\ \/ Truthy(tag) /\ covering[1].key_tag = tag
                     \/ HasKeyByTag(zone2, covering[1].key_tag)
        zone3 == [zone2 EXCEPT !.dnskey_validated = IF signed THEN TRUE ELSE @]
    IN
    IF zone3.ds_validated /\ zone3.dnskey_validated
    THEN LoopState(SetZone(st, i, [zone3 EXCEPT !.status = "SECURE",
                                       !.status_reason = Reason("Chain validated", <<>>),
                                       !.chain_complete = TRUE]),
                   i, st.all_secure, FALSE, st.overall_status, st.overall_reason)
    ELSE IF zone3.ds_validated
    THEN LoopState(SetZone(st, i, [zone3 EXCEPT !.status = "SECURE",
                                       !.status_reason =
                                           Reason("DS validated (RRSIG check partial)", <<>>),
                                       !.chain_complete = TRUE]),
                   i, st.all_secure, FALSE, st.overall_status, st.overall_reason)
    ELSE LoopState(SetZone(st, i, [zone3 EXCEPT !.status = "INDETERMINATE",
                                       !.status_reason =
                                           Reason("Could not fully validate", <<>>)]),
                   i, FALSE, FALSE, st.overall_status, st.overall_reason)

\* the iteration from the result of _validate_rrsig_timing on
ZoneStepTiming(st, i, zone1, tag, timing) ==
    IF ~timing.valid
    THEN ZoneBogus(st, i, [zone1 EXCEPT !.rrsigs = timing.rrsigs],
                   timing.reason, timing.reason.text)
    ELSE ZoneStepSigned(st, i, [zone1 EXCEPT !.rrsigs = timing.rrsigs], tag)

\* an iteration that takes DS records that match no DNSKEY for an insecure
\* delegation
ZoneStepDsLenient(st, i, t, zone, ds) ==
    LET zone1 == [zone EXCEPT !.ds_records = ds.ds_records,
                              !.ds_validated = IF ds.valid THEN TRUE ELSE @]
    IN
    IF ~ds.valid
    THEN IF st.zones[st.parent].status = "SECURE"
         THEN ZoneInsecure(st, i, zone1, "No DS record in parent (insecure delegation)")
         ELSE ZoneInsecure(st, i, zone1, "Parent zone is not secure")
    ELSE ZoneStepTiming(st, i, zone1, ds.tag, ValidateRrsigTiming(zone1, t))

\* the iteration from the result ds of _validate_ds_to_dnskey on, for a
\* zone that has DNSKEYs
ZoneStepDs(st, i, t, zone, ds) ==
    LET zone1 == [zone EXCEPT !.ds_records = ds.ds_records,
                              !.ds_validated = IF ds.valid THEN TRUE ELSE @]
    IN
    IF ~ds.valid /\ zone.ds_records # <<>>
    THEN ZoneBogus(st, i, zone1, ds.reason, ds.reason.text)
    ELSE IF ~ds.valid
    THEN IF st.zones[st.parent].status = "SECURE"
         THEN ZoneInsecure(st, i, zone1, "No DS record in parent (insecure delegation)")
         ELSE ZoneInsecure(st, i, zone1, "Parent zone is not secure")
    ELSE ZoneStepTiming(st, i, zone1, ds.tag, ValidateRrsigTiming(zone1, t))

\* one iteration of the loop, for the zone at index i, at clock reading t
ZoneStep(st, i, t) ==
    IF st.zones[i].dnskeys = <<>>
    THEN IF st.zones[i].ds_records = <<>>
         THEN ZoneInsecure(st, i, st.zones[i], "No DNSSEC (unsigned delegation)")
         ELSE ZoneBogus(st, i, st.zones[i],
                        Reason("DS exists but no DNSKEY in zone", <<>>),
                        "DS exists but no DNSKEY")
    ELSE ZoneStepDs(st, i, t, st.zones[i],
                    ValidateDsToDnskey(st.zones[i], st.zones[i].ds_records))

\* the loop from index i on; it stops at the first return statement
RECURSIVE ZoneLoop(_, _, _)
ZoneLoop(st, i, t) ==
    IF i > Len(st.zones) \/ st.returned THEN st
    ELSE ZoneLoop(ZoneStep(st, i, t), i + 1, t)

\* index of the first zone whose status is not SECURE, 0 if there is none
FirstNonSecure(zs) ==
    IF \E i \in 1..Len(zs) : zs[i].status # "SECURE"
    THEN CHOOSE i \in 1..Len(zs) :
             /\ zs[i].status # "SECURE"
             /\ \A j \in 1..(i - 1) : zs[j].status = "SECURE"
    ELSE 0

\* a "Set overall status" that does not look at all_secure
SetOverallAlwaysSecure(c, st) ==
    [c EXCEPT !.zones = st.zones, !.overall_status = "SECURE",
              !.overall_reason =
                  ChainReason("Complete chain of trust validated", <<>>, "")]

\* a "Set overall status" that does not adopt the status of the zone found
SetOverallIndeterminate(c, st) ==
    IF st.all_secure
    THEN [c EXCEPT !.zones = st.zones, !.overall_status = "SECURE",
                   !.overall_reason =
                       ChainReason("Complete chain of trust validated", <<>>, "")]
    ELSE [c EXCEPT !.zones = st.zones, !.overall_status = "INDETERMINATE"]

\* "Set overall status" at the end of validate_chain
SetOverall(c, st) ==
    IF st.all_secure
    THEN [c EXCEPT !.zones = st.zones, !.overall_status = "SECURE",
                   !.overall_reason =
                       ChainReason("Complete chain of trust validated", <<>>, "")]
    ELSE LET k == FirstNonSecure(st.zones)
         IN  IF k = 0 THEN [c EXCEPT !.zones = st.zones]
             ELSE IF st.zones[k].status = "INSECURE"
             THEN [c EXCEPT !.zones = st.zones, !.overall_status = "INSECURE",
                            !.overall_reason =
                                ChainReason("Chain breaks at", st.zones[k].name,
                                            st.zones[k].status_reason.text)]
             ELSE [c EXCEPT !.zones = st.zones,
                            !.overall_status = st.zones[k].status,
                            !.overall_reason =
                                ChainReason("Chain issue at", st.zones[k].name,
                                            st.zones[k].status_reason.text)]

\* a root-failure branch that reports the chain as INSECURE
RootValidationFailedInsecure(c, zs, reason) ==
    [c EXCEPT !.zones = [zs EXCEPT ![1].status = "BOGUS",
                                   ![1].status_reason = reason],
              !.overall_status = "INSECURE",
              !.overall_reason =
                  ChainReason("Root validation failed", RootName, reason.text)]

\* the branch "else" of "if root_valid" in validate_chain
RootValidationFailed(c, zs, reason) ==
    [c EXCEPT !.zones = [zs EXCEPT ![1].status = "BOGUS",
                                   ![1].status_reason = reason],
              !.overall_status = "BOGUS",
              !.overall_reason =
                  ChainReason("Root validation failed", RootName, reason.text)]

\* validate_chain once the loop has ended in the state st
ValidateChainEnd(c, st) ==
    IF st.returned
    THEN [c EXCEPT !.zones = st.zones,
                   !.overall_status = st.overall_status,
                   !.overall_reason = st.overall_reason]
    ELSE SetOverall(c, st)

\* validate_chain from the RRSIG timing of the root on
ValidateChainRootTiming(c, zs, t, root1, timing) ==
    IF ~timing.valid
    THEN [c EXCEPT !.zones = [zs EXCEPT ![1] =
                                 [root1 EXCEPT !.rrsigs = timing.rrsigs,
                                               !.status = "BOGUS",
                                               !.status_reason = timing.reason]],
                   !.overall_status = "BOGUS",
                   !.overall_reason = ChainReason(timing.reason.text, <<>>, "")]
    ELSE ValidateChainEnd(c,
             ZoneLoop(LoopState([zs EXCEPT ![1] = [root1 EXCEPT !.rrsigs = timing.rrsigs]],
                                1, TRUE, FALSE, c.overall_status, c.overall_reason),
                      2, t))

\* validate_chain from the result rootv of _validate_root_zone on
ValidateChainRoot(c, zs, t, rootv) ==
    LET root1 == [zs[1] EXCEPT !.status = "SECURE",
                               !.status_reason = rootv.reason,
                               !.chain_complete = TRUE]
    IN  IF ~rootv.valid
        THEN RootValidationFailed(c, zs, rootv.reason)
        ELSE ValidateChainRootTiming(c, zs, t, root1, ValidateRrsigTiming(root1, t))

\* validate_chain after query_zone_chain returned zs, at clock reading t
ValidateChain(c, zs, t) ==
    IF zs = <<>>
    THEN [c EXCEPT !.zones = zs, !.overall_status = "INDETERMINATE",
                   !.overall_reason =
                       ChainReason("Could not query DNS records - no zones returned",
                                   <<>>, "")]
    ELSE IF zs[1].name # RootName
    THEN [c EXCEPT !.zones = zs, !.overall_status = "INDETERMINATE",
                   !.overall_reason = ChainReason("Root zone not found", <<>>, "")]
    ELSE ValidateChainRoot(c, zs, t, ValidateRootZone(zs[1]))


----------------
(* Resolver: dns/resolver.py *)

\* _query: the outcome of resolver.resolve is an answer or an exception;
\* every exception gives None (here: the empty answer), except NXDOMAIN
\* when raise_on_nxdomain is set
NoAnswer == [rrset |-> <<>>, rrsigs |-> <<>>]
QueryRaises(outcome, raise_on_nxdomain) ==
    outcome.kind = "NXDOMAIN" /\ raise_on_nxdomain
Query(outcome, raise_on_nxdomain) ==
    IF outcome.kind = "answer"
    THEN [rrset |-> outcome.rrset, rrsigs |-> outcome.rrsigs]
    ELSE NoAnswer

\* "if answer:" -- an Answer is true when its rrset has records
AnswerTrue(answer) == answer.rrset # <<>>

\* query_dnskeys raises when parse_dnskey raises on a record of the answer
QueryDnskeysRaises(outcome) ==
    LET answer == Query(outcome, FALSE)
    IN  /\ AnswerTrue(answer)
        /\ \E i \in 1..Len(answer.rrset) : ParseDnskeyRaises(answer.rrset[i])

\* query_dnskeys: ZoneInfo with the DNSKEYs and the DNSKEY-covering RRSIGs
QueryDnskeys(zone, outcome) ==
    LET answer == Query(outcome, FALSE)
    IN  IF AnswerTrue(answer)
        THEN [ZoneInfo(zone) EXCEPT
                 !.dnskeys = [i \in 1..Len(answer.rrset) |-> ParseDnskey(answer.rrset[i])],
                 !.rrsigs =
                     LET cov == SelectSeq(answer.rrsigs,
                                          LAMBDA r : r.type_covered = "DNSKEY")
                     IN  [i \in 1..Len(cov) |-> ParseRrsig(cov[i])]]
        ELSE ZoneInfo(zone)

\* query_ds
QueryDs(outcome) ==
    LET answer == Query(outcome, FALSE)
    IN  IF AnswerTrue(answer)
        THEN [i \in 1..Len(answer.rrset) |-> ParseDs(answer.rrset[i])]
        ELSE <<>>

\* query_nameserver_direct: reply is the outcome of dns.query.udp, an
\* answer (a sequence of rrsets) or an exception
RECURSIVE ReadRrsets(_, _, _)
ReadRrsets(resp, rrsets, i) ==
    IF i > Len(rrsets) THEN resp
    ELSE IF rrsets[i].rdtype = "DNSKEY"
    THEN LET bad == {k \in 1..Len(rrsets[i].rdatas) :
                        ParseDnskeyRaises(rrsets[i].rdatas[k])}
             upto == IF bad = {} THEN Len(rrsets[i].rdatas)
                     ELSE (CHOOSE k \in bad : \A m \in bad : k <= m) - 1
             tags == [k \in 1..upto |-> KeyId(rrsets[i].rdatas[k])]
         IN  IF bad = {}
             THEN ReadRrsets([resp EXCEPT !.dnskey_tags = @ \o tags], rrsets, i + 1)
             ELSE [resp EXCEPT !.dnskey_tags = @ \o tags, !.error = "IndexError"]
    ELSE IF rrsets[i].rdtype = "RRSIG"
    THEN ReadRrsets([resp EXCEPT !.has_rrsig = TRUE], rrsets, i + 1)
    ELSE ReadRrsets(resp, rrsets, i + 1)

QueryNameserverDirect(nameserver_ip, reply) ==
    LET response == [server_ip |-> nameserver_ip, server_name |-> "",
                     responded |-> FALSE, error |-> "None",
                     dnskey_tags |-> <<>>, has_rrsig |-> FALSE]
    IN  IF reply.kind = "Timeout" THEN [response EXCEPT !.error = "Timeout"]
        ELSE IF reply.kind # "answer" THEN [response EXCEPT !.error = reply.kind]
        ELSE ReadRrsets([response EXCEPT !.responded = TRUE], reply.rrsets, 1)

\* check_consistency: servers is what get_authoritative_nameservers found,
\* each (ns_name, ns_ip) with the reply its direct query will get
MaxServers == 5

RECURSIVE KeySetIssues(_, _, _)
KeySetIssues(responses, all_key_sets, i) ==
    IF i > Len(all_key_sets) THEN <<>>
    ELSE (IF all_key_sets[i] # all_key_sets[1]
          THEN (IF all_key_sets[1] \ all_key_sets[i] # {}
                THEN <<[text |-> "missing keys", server |-> responses[i].server_name]>>
                ELSE <<>>)
               \o
               (IF all_key_sets[i] \ all_key_sets[1] # {}
                THEN <<[text |-> "has extra keys", server |-> responses[i].server_name]>>
                ELSE <<>>)
          ELSE <<>>)
         \o KeySetIssues(responses, all_key_sets, i + 1)

CheckConsistency(zone, servers) ==
    \* limited is nameservers[:max_servers]
    LET result == [zone_name |-> zone, nameservers_queried |-> 0,
                   nameservers_responded |-> 0, is_consistent |-> TRUE,
                   issues |-> <<>>, server_responses |-> <<>>]
    IN
    IF servers = <<>>
    THEN [result EXCEPT !.issues =
             <<[text |-> "Could not find authoritative nameservers", server |-> ""]>>]
    ELSE
      LET limited == SubSeq(servers, 1,
                                IF Len(servers) < MaxServers THEN Len(servers)
                                ELSE MaxServers)
          responses == [i \in 1..Len(limited) |->
                           [QueryNameserverDirect(limited[i].ns_ip,
                                                  limited[i].reply)
                               EXCEPT !.server_name = limited[i].ns_name]]
          responded == SelectSeq(responses, LAMBDA r : r.responded)
          all_key_sets == [i \in 1..Len(responded) |-> Unique(responded[i].dnskey_tags)]
          set_issues == IF Len(all_key_sets) > 1
                        THEN KeySetIssues(responses, all_key_sets, 2)
                        ELSE <<>>
          silent == SelectSeq(responses, LAMBDA r : ~r.responded)
          silent_issues == [i \in 1..Len(silent) |->
                               [text |-> "did not respond", server |-> silent[i].server_ip]]
          unsigned == SelectSeq(responses,
                          LAMBDA r : r.responded /\ ~r.has_rrsig /\ r.dnskey_tags # <<>>)
          unsigned_issues == [i \in 1..Len(unsigned) |->
                                 [text |-> "returned DNSKEY without RRSIG",
                                  server |-> unsigned[i].server_name]]
      IN  [result EXCEPT
              !.nameservers_queried = Len(limited),
              !.nameservers_responded = Len(responded),
              !.server_responses = responses,
              !.is_consistent =
                  /\ \A i \in 2..Len(all_key_sets) : all_key_sets[i] = all_key_sets[1]
                  /\ unsigned = <<>>,
              !.issues = set_issues \o silent_issues \o unsigned_issues]


----------------------------------------------------------------------------
(* What the DNS may answer *)

\* the selections of at most max records of a record set, in its order
RECURSIVE Pick(_, _, _)
Pick(univ, S, i) ==
    IF i > Len(univ) THEN <<>>
    ELSE (IF i \in S THEN <<univ[i]>> ELSE <<>>) \o Pick(univ, S, i + 1)

Selections(univ, max) ==
    {Pick(univ, S, 1) : S \in {T \in SUBSET (1..Len(univ)) : Cardinality(T) <= max}}

\* the DS record a parent publishes for a key of the zone
DSFor(zone_name, key, digest_type) ==
    [key_tag |-> KeyId(key), algorithm |-> key.algorithm,
     digest_type |-> digest_type,
     digest |-> HashBytes(digest_type, zone_name,
                          RdataBytes(key.flags, key.protocol, key.algorithm, key.key))]
\* a DS for KSKb with a digest of another key
DSWrong ==
    [key_tag |-> KeyId(KSKb), algorithm |-> 8, digest_type |-> 2,
     digest |-> OtherBytes("AAAA")]
\* a DS for KSKb of an unassigned digest type, with an empty digest field
DSOdd ==
    [key_tag |-> KeyId(KSKb), algorithm |-> 8, digest_type |-> 5,
     digest |-> EmptyBytes]

\* RRSIGs: one by a key that no zone has, valid at every clock reading; one
\* by KSKb, valid at clock reading 1 only; one that covers another type
SigOther == [type_covered |-> "DNSKEY", key_tag |-> 9, inception |-> 0,
             expiration |-> MaxTime]
SigNarrow == [type_covered |-> "DNSKEY", key_tag |-> KeyId(KSKb), inception |-> 1,
              expiration |-> 1]
SigA == [type_covered |-> "A", key_tag |-> KeyId(ZSKa), inception |-> 1,
         expiration |-> 1]

KeyAnswers(zone_name) ==
    Selections(IF zone_name = RootName THEN <<KSK2017, KSKb, ZSKa, BadKey>>
               ELSE <<KSKb, ZSKa, BadKey>>, MaxKeys)
SigAnswers == Selections(<<SigOther, SigNarrow, SigA>>, MaxSigs)
DsAnswers(zone_name) ==
    Selections(<<DSFor(zone_name, KSKb, 2), DSFor(zone_name, ZSKa, 2),
                 DSWrong, DSOdd>>, MaxDS)

\* a second RRSIG by KSKb, valid at clock reading 2 only
SigLate == [type_covered |-> "DNSKEY", key_tag |-> KeyId(KSKb), inception |-> 2,
            expiration |-> 2]

\* answers that sign one key in several ways
SigAnswersTiming == Selections(<<SigNarrow, SigLate, SigOther, SigA>>, MaxSigs + 1)

\* answers whose first RRSIG is by a key that the zone does not have
SigAnswersSigned == Selections(<<SigOther, SigNarrow, SigA>>, MaxSigs + 1)

\* answers for zones with one or two keys, and up to two DS records for
\* them, of two digest types
KeyAnswersDs(zone_name) == {<<KSKb>>, <<ZSKa>>, <<KSKb, ZSKa>>}
DsAnswersDs(zone_name) ==
    Selections(<<DSFor(zone_name, KSKb, 2), DSFor(zone_name, KSKb, 1),
                 DSFor(zone_name, ZSKa, 2), DSWrong, DSOdd>>, MaxDS + 1)

KeyAnswersLite(zone_name) == {<<>>, <<KSKb>>, <<BadKey>>}
DsAnswersLite(zone_name) == {<<>>, <<DSFor(zone_name, KSKb, 2)>>}

TargetDomains == {<<>>, <<"a">>, <<"b", ".", "a">>}

Failed(kind) == [kind |-> kind, rrset |-> <<>>, rrsigs |-> <<>>]
Answered(rrset, rrsigs) == [kind |-> "answer", rrset |-> rrset, rrsigs |-> rrsigs]

\* what dns.query.udp gives for the DNSKEY query sent to one server: an
\* exception, or a message whose answer section holds the DNSKEY rrset
\* followed, if the server signs, by the RRSIG rrset
ReplyTimeout == [kind |-> "Timeout", rrsets |-> <<>>]
ReplyEmpty == [kind |-> "answer", rrsets |-> <<>>]
ReplyUnsigned(keys) ==
    [kind |-> "answer", rrsets |-> <<[rdtype |-> "DNSKEY", rdatas |-> keys]>>]
ReplySigned(keys) ==
    [kind |-> "answer",
     rrsets |-> <<[rdtype |-> "DNSKEY", rdatas |-> keys],
                  [rdtype |-> "RRSIG", rdatas |-> <<SigOther>>]>>]

Replies ==
    {ReplyTimeout, ReplyEmpty, ReplyUnsigned(<<KSKb>>), ReplySigned(<<KSKb>>),
     ReplySigned(<<KSKb, ZSKa>>), ReplySigned(<<ZSKa, KSKb>>),
     ReplySigned(<<KSKb, BadKey>>)}

\* what get_authoritative_nameservers found, (ns_name, ns_ip) in order,
\* each with the reply its server will give
ServerLists(n) ==
    UNION {[1..k -> Replies] : k \in 0..n}
NsList(replies) ==
    [i \in 1..Len(replies) |->
        [ns_name |-> <<"ns", i>>, ns_ip |-> <<"ip", i>>, reply |-> replies[i]]]

\* no authoritative server found, or one that answers without an RRSIG
ServerAnswersLite == {<<>>, NsList(<<ReplyUnsigned(<<KSKb>>)>>)}

----------------------------------------------------------------------------
(* The calls *)

Init ==
    /\ domain = <<>>
    /\ pc = "idle"
    /\ hierarchy = <<>>
    /\ zones = <<>>
    /\ nxnames = {}
    /\ malformed = {}
    /\ now = 0
    /\ chain = TrustChain(<<>>)
    /\ nameservers = SystemResolvers
    /\ queried = {}
    /\ ns_replies = <<>>
    /\ queries = <<>>
    /\ is_loading = FALSE
    /\ workers = <<>>

\* validate_chain(d) up to the first query of query_zone_chain
StartWith(D) ==
    /\ pc = "idle"
    /\ \E d \in D :
        /\ domain' = d
        /\ chain' = [TrustChain(d) EXCEPT !.resolver_used = JoinComma(nameservers)]
        /\ hierarchy' = GetZoneHierarchy(d)
    /\ zones' = <<>>
    /\ pc' = "querying"
    /\ queried' = {}
    /\ queries' = <<>>
    /\ UNCHANGED <<nxnames, malformed, now, nameservers, ns_replies,
                   is_loading, workers>>

\* the check_consistency argument of query_zone_chain: validate_chain
\* leaves it at its default
check_consistency == TRUE

\* a query_zone_chain that asks for the DS records of every zone
ZoneQueriesDsAlways(i, raised) ==
    LET zone_name == hierarchy[i]
    IN  <<<<"DNSKEY", zone_name>>>>
        \o (IF raised THEN <<>>
            ELSE <<<<"DS", zone_name>>>>
                 \o (IF \/ zone_name = hierarchy[Len(hierarchy)]
                        \/ RStripDots(domain) \o <<".">> = zone_name
                     THEN <<<<"additional", domain>>>> ELSE <<>>)
                 \o (IF check_consistency /\ zone_name # RootName
                     THEN <<<<"consistency", zone_name>>>> ELSE <<>>))

\* the queries of one iteration of the loop of query_zone_chain, in the
\* order it makes them; raised when parse_dnskey raises in query_dnskeys
ZoneQueries(i, raised) ==
    LET zone_name == hierarchy[i]
    IN  <<<<"DNSKEY", zone_name>>>>
        \o (IF raised THEN <<>>
            ELSE (IF zone_name # RootName THEN <<<<"DS", zone_name>>>> ELSE <<>>)
                 \o (IF \/ zone_name = hierarchy[Len(hierarchy)]
                        \/ RStripDots(domain) \o <<".">> = zone_name
                     THEN <<<<"additional", domain>>>> ELSE <<>>)
                 \o (IF check_consistency /\ zone_name # RootName
                     THEN <<<<"consistency", zone_name>>>> ELSE <<>>))

\* a BuildZone that names the zone itself as its parent
BuildZoneSelfParent(i, key_outcome, ds_outcome, add, servers) ==
    LET zone_name == hierarchy[i]
        z0 == QueryDnskeys(zone_name, key_outcome)
        z1 == IF i > 1 THEN [z0 EXCEPT !.parent = hierarchy[i]] ELSE z0
        z2 == IF zone_name # RootName
              THEN [z1 EXCEPT !.ds_records = QueryDs(ds_outcome)] ELSE z1
        z3 == IF \/ zone_name = hierarchy[Len(hierarchy)]
                 \/ RStripDots(domain) \o <<".">> = zone_name
              THEN [z2 EXCEPT !.additional_records = add] ELSE z2
    IN  IF check_consistency /\ zone_name # RootName
        THEN [z3 EXCEPT !.consistency = <<CheckConsistency(zone_name, servers)>>]
        ELSE z3

\* the ZoneInfo that one iteration of the loop of query_zone_chain appends
BuildZone(i, key_outcome, ds_outcome, add, servers) ==
    LET zone_name == hierarchy[i]
        z0 == QueryDnskeys(zone_name, key_outcome)
        z1 == IF i > 1 THEN [z0 EXCEPT !.parent = hierarchy[i - 1]] ELSE z0
        z2 == IF zone_name # RootName
              THEN [z1 EXCEPT !.ds_records = QueryDs(ds_outcome)] ELSE z1
        z3 == IF \/ zone_name = hierarchy[Len(hierarchy)]
                 \/ RStripDots(domain) \o <<".">> = zone_name
              THEN [z2 EXCEPT !.additional_records = add] ELSE z2
    IN  IF check_consistency /\ zone_name # RootName
        THEN [z3 EXCEPT !.consistency = <<CheckConsistency(zone_name, servers)>>]
        ELSE z3

\* one iteration of the loop of query_zone_chain, with the answers of its
\* queries; an exception of parse_dnskey leaves query_zone_chain and is
\* caught by validate_chain, which returns
QueryZoneWith(answers) ==
    /\ pc = "querying"
    /\ Len(zones) < Len(hierarchy)
    /\ LET i == Len(zones) + 1
           zone_name == hierarchy[i]
           KeyAns(n) == IF answers = "full" THEN KeyAnswers(n)
                        ELSE IF answers \in {"timing", "signed"} THEN {<<KSKb>>}
                        ELSE IF answers = "ds" THEN KeyAnswersDs(n)
                        ELSE KeyAnswersLite(n)
           SigAns == IF answers = "full" THEN SigAnswers
                     ELSE IF answers = "timing" THEN SigAnswersTiming
                     ELSE IF answers = "signed" THEN SigAnswersSigned
                     ELSE {<<>>}
           DsAns(n) == IF answers = "full" THEN DsAnswers(n)
                       ELSE IF answers = "ds" THEN DsAnswersDs(n)
                       ELSE DsAnswersLite(n)
           AddAns == IF answers = "lite" THEN {<<>>, <<"SOA">>} ELSE {<<"SOA">>}
           SrvAns == IF answers = "served" THEN ServerAnswersLite ELSE {<<>>}
           may_exist == IF i = 1 THEN TRUE ELSE hierarchy[i - 1] \notin nxnames
           may_not_exist == i > 1
       IN
       \/ /\ may_not_exist
          /\ nxnames' = nxnames \cup {zone_name}
          /\ zones' = Append(zones,
                 BuildZone(i, Failed("NXDOMAIN"), Failed("NXDOMAIN"), <<>>, <<>>))
          /\ queries' = queries \o ZoneQueries(i, FALSE)
          /\ UNCHANGED <<pc, chain, malformed>>
       \/ /\ may_exist
          /\ \E key_outcome \in {Answered(k, g) : k \in KeyAns(zone_name), g \in SigAns}
                                \cup {Failed("Timeout")},
                ds_outcome \in {Answered(d, <<>>) : d \in DsAns(zone_name)},
                add \in AddAns, servers \in SrvAns :
                IF QueryDnskeysRaises(key_outcome)
                THEN /\ malformed' = malformed \cup {zone_name}
                     /\ chain' = [chain EXCEPT
                            !.overall_status = "INDETERMINATE",
                            !.overall_reason = ChainReason("DNS query failed", <<>>,
                                                           "IndexError")]
                     /\ pc' = "done"
                     /\ queries' = queries \o ZoneQueries(i, TRUE)
                     /\ UNCHANGED <<zones, nxnames>>
                ELSE /\ zones' = Append(zones,
                            BuildZone(i, key_outcome, ds_outcome, add, servers))
                     /\ queries' = queries \o ZoneQueries(i, FALSE)
                     /\ UNCHANGED <<pc, chain, malformed, nxnames>>
    /\ queried' = queried \cup {nameservers}
    /\ UNCHANGED <<domain, hierarchy, now, nameservers, ns_replies,
                   is_loading, workers>>

\* the rest of validate_chain, once query_zone_chain has returned; the
\* chain holds the list that query_zone_chain built, so the ZoneInfo
\* objects of zones are the ones validation writes to
Validate ==
    /\ pc = "querying"
    /\ Len(zones) = Len(hierarchy)
    /\ \E t \in 0..MaxTime :
        /\ now' = t
        /\ chain' = ValidateChain(chain, zones, t)
    /\ zones' = chain'.zones
    /\ pc' = "done"
    /\ UNCHANGED <<domain, hierarchy, nxnames, malformed, nameservers, queried, ns_replies,
                   queries, is_loading, workers>>

Start == StartWith(TargetDomains)
QueryZone == QueryZoneWith("full")

Next == Start \/ QueryZone \/ Validate

Spec == Init /\ [][Next]_vars

\* query_zone_chain and validate_chain for every domain string, over a
\* small choice of answers
StartAny == StartWith(Strings(MaxDomainLen))
QueryZoneLite == QueryZoneWith("lite")

NextChain == StartAny \/ QueryZoneLite \/ Validate

SpecChain == Init /\ [][NextChain]_vars

\* action_resolver, once the user has submitted a list of resolvers: it
\* does not look at _is_loading, and the validator of a running validation
\* holds the same DNSResolver
ResolverChoices == {<<"8.8.8.8">>, <<"1.1.1.1", "9.9.9.9">>}

SetNameservers ==
    /\ \E result \in ResolverChoices : nameservers' = result
    /\ UNCHANGED <<domain, pc, hierarchy, zones, nxnames, malformed, now, chain,
                   queried, ns_replies,
                   queries, is_loading, workers>>

\* the application: a validation in its worker thread, and the user who
\* changes the resolvers
NextApp == Start \/ QueryZoneLite \/ Validate \/ SetNameservers

SpecApp == Init /\ [][NextApp]_vars

\* validate_chain for zones of one key, signed in several ways
QueryZoneTiming == QueryZoneWith("timing")

NextTiming == Start \/ QueryZoneTiming \/ Validate

SpecTiming == Init /\ [][NextTiming]_vars

\* validate_chain for zones of one key, with up to two RRSIGs in the
\* order the answer lists them
QueryZoneSigned == QueryZoneWith("signed")

NextSigned == Start \/ QueryZoneSigned \/ Validate

SpecSigned == Init /\ [][NextSigned]_vars

\* validate_chain for zones with up to two DS records
QueryZoneDs == QueryZoneWith("ds")

NextDs == Start \/ QueryZoneDs \/ Validate

SpecDs == Init /\ [][NextDs]_vars

\* validate_chain over a small choice of answers, with authoritative
\* servers that check_consistency finds at fault or not
QueryZoneServed == QueryZoneWith("served")

NextServed == Start \/ QueryZoneServed \/ Validate

SpecServed == Init /\ [][NextServed]_vars

\* str.strip(): removes the white space at both ends
RECURSIVE LStrip(_)
LStrip(s) == IF s # <<>> /\ s[1] = " " THEN LStrip(Tail(s)) ELSE s
RECURSIVE RStrip(_)
RStrip(s) ==
    IF s # <<>> /\ s[Len(s)] = " " THEN RStrip(SubSeq(s, 1, Len(s) - 1)) ELSE s
Strip(s) == RStrip(LStrip(s))

\* what the user may submit in the domain input
SubmittedValues == {<<>>, <<" ">>, <<"a">>, <<"a", " ">>, <<" ", "b", ".", "a">>}

\* on_input_submitted on the main thread: it starts a thread for
\* _query_domain unless the text is empty or _is_loading is set
Submit ==
    /\ Len(workers) < MaxWorkers
    /\ \E value \in SubmittedValues :
        /\ Strip(value) # <<>> /\ ~is_loading
        /\ workers' = Append(workers, [domain |-> Strip(value), at |-> "started"])
    /\ UNCHANGED <<domain, pc, hierarchy, zones, nxnames, malformed, now, chain,
                   nameservers, queried, ns_replies, queries, is_loading>>

\* call_from_thread(self._set_loading, True, domain): the main thread
\* runs _set_loading for the worker, which waits for it
WorkerSetLoading ==
    /\ \E w \in 1..Len(workers) :
        /\ workers[w].at = "started"
        /\ workers' = [workers EXCEPT ![w].at = "validating"]
    /\ is_loading' = TRUE
    /\ UNCHANGED <<domain, pc, hierarchy, zones, nxnames, malformed, now, chain,
                   nameservers, queried, ns_replies, queries>>

\* validate_chain in the worker thread, then _set_chain or _handle_error
\* on the main thread
WorkerValidate ==
    /\ \E w \in 1..Len(workers) :
        /\ workers[w].at = "validating"
        /\ workers' = [workers EXCEPT ![w].at = "validated"]
    /\ UNCHANGED <<domain, pc, hierarchy, zones, nxnames, malformed, now, chain,
                   nameservers, queried, ns_replies, queries, is_loading>>

\* finally: call_from_thread(self._set_loading, False, domain); the thread
\* ends
WorkerFinish ==
    /\ \E w \in 1..Len(workers) :
        /\ workers[w].at = "validated"
        /\ workers' = [workers EXCEPT ![w].at = "finished"]
    /\ is_loading' = FALSE
    /\ UNCHANGED <<domain, pc, hierarchy, zones, nxnames, malformed, now, chain,
                   nameservers, queried, ns_replies, queries>>

\* the application: the main thread that handles submitted domains and
\* the worker threads it starts
NextWorkers == Submit \/ WorkerSetLoading \/ WorkerValidate \/ WorkerFinish

SpecWorkers == Init /\ [][NextWorkers]_vars

\* get_zone_hierarchy as a function of its argument
InitHierarchy ==
    /\ domain \in Strings(MaxLen)
    /\ pc = "idle"
    /\ hierarchy = <<>>
    /\ zones = <<>>
    /\ nxnames = {}
    /\ malformed = {}
    /\ now = 0
    /\ chain = TrustChain(<<>>)
    /\ nameservers = SystemResolvers
    /\ queried = {}
    /\ ns_replies = <<>>
    /\ queries = <<>>
    /\ is_loading = FALSE
    /\ workers = <<>>

CallHierarchy ==
    /\ pc = "idle"
    /\ hierarchy' = GetZoneHierarchy(domain)
    /\ pc' = "hier"
    /\ UNCHANGED <<domain, zones, nxnames, malformed, now, chain,
                   nameservers, queried, ns_replies,
                   queries, is_loading, workers>>

NextHierarchy == CallHierarchy

SpecHierarchy == InitHierarchy /\ [][NextHierarchy]_vars

\* check_consistency as a function of what the authoritative servers of
\* the zone answer
CheckedZone == <<"a", ".">>

InitConsistency ==
    /\ domain = <<"a">>
    /\ pc = "idle"
    /\ hierarchy = <<>>
    /\ zones = <<>>
    /\ nxnames = {}
    /\ malformed = {}
    /\ now = 0
    /\ chain = TrustChain(<<>>)
    /\ nameservers = SystemResolvers
    /\ queried = {}
    /\ ns_replies \in ServerLists(MaxNs)
    /\ queries = <<>>
    /\ is_loading = FALSE
    /\ workers = <<>>

CallConsistency ==
    /\ pc = "idle"
    /\ zones' = <<[ZoneInfo(CheckedZone) EXCEPT
                      !.consistency = <<CheckConsistency(CheckedZone, NsList(ns_replies))>>]>>
    /\ pc' = "checked"
    /\ UNCHANGED <<domain, hierarchy, nxnames, malformed, now, chain,
                   nameservers, queried, ns_replies,
                   queries, is_loading, workers>>

NextConsistency == CallConsistency

SpecConsistency == InitConsistency /\ [][NextConsistency]_vars


----------------------------------------------------------------------------
(* Properties of the returned chain *)

Returned == pc = "done"
ZoneCount == Len(chain.zones)
HasRoot == ZoneCount > 0 /\ chain.zones[1].name = RootName
StatusOf(i) == chain.zones[i].status

\* C1: when validate_chain returns a chain whose overall_status is SECURE,
\* every zone of the chain, the root included, has status SECURE.
C1_SecureChainHasOnlySecureZones ==
    (Returned /\ chain.overall_status = "SECURE")
        => \A i \in 1..ZoneCount : StatusOf(i) = "SECURE"

C1_Witness ==
    /\ Returned
    /\ chain.overall_status = "SECURE"
    /\ ZoneCount = 3
    /\ \A i \in 1..ZoneCount : StatusOf(i) = "SECURE"

\* some DNSKEY of the zone has the key tag and algorithm of a built-in
\* trust anchor and hashes to the anchor's digest
TrustAnchorMatched(zone) ==
    \E a \in 1..Len(ROOT_DS_RECORDS), k \in 1..Len(zone.dnskeys) :
        /\ zone.dnskeys[k].key_tag = ROOT_DS_RECORDS[a].key_tag
        /\ zone.dnskeys[k].algorithm = ROOT_DS_RECORDS[a].algorithm
        /\ ComputeDsDigest(RootName, zone.dnskeys[k], ROOT_DS_RECORDS[a].digest_type)
              = ROOT_DS_RECORDS[a].digest

HasSepKey(zone) == \E k \in 1..Len(zone.dnskeys) : zone.dnskeys[k].flags % 2 = 1

\* C2, as claimed: every SECURE zone of a returned chain is the root with a
\* DNSKEY that matched a trust anchor, or has ds_validated set.
C2_SecureByAnchorOrDs ==
    Returned =>
        \A i \in 1..ZoneCount :
            StatusOf(i) = "SECURE" =>
                \/ i = 1 /\ chain.zones[i].name = RootName
                         /\ TrustAnchorMatched(chain.zones[i])
                \/ chain.zones[i].ds_validated

\* C2, amended: every SECURE zone of a returned chain is the root with a
\* DNSKEY that matched a trust anchor or, failing that, with a DNSKEY that
\* has the SEP bit (the fallback of _validate_root_zone), or has
\* ds_validated set.
C2_SecureByAnchorOrSepOrDs ==
    Returned =>
        \A i \in 1..ZoneCount :
            StatusOf(i) = "SECURE" =>
                \/ i = 1 /\ chain.zones[i].name = RootName
                         /\ (TrustAnchorMatched(chain.zones[i]) \/ HasSepKey(chain.zones[i]))
                \/ chain.zones[i].ds_validated

C2_Witness ==
    /\ Returned
    /\ ZoneCount = 3
    /\ StatusOf(1) = "SECURE"
    /\ ~TrustAnchorMatched(chain.zones[1])
    /\ StatusOf(3) = "SECURE"
    /\ chain.zones[3].ds_validated

\* a DS record and a DNSKEY of the zone agree in key tag, algorithm and digest
DsMatchesKey(zone, ds, key) ==
    /\ key.key_tag = ds.key_tag
    /\ key.algorithm = ds.algorithm
    /\ ComputeDsDigest(zone.name, key, ds.digest_type) = ds.digest

NoDsMatchesAnyKey(zone) ==
    \A d \in 1..Len(zone.ds_records), k \in 1..Len(zone.dnskeys) :
        ~DsMatchesKey(zone, zone.ds_records[d], zone.dnskeys[k])

\* the keys the validator matches DS records against: those with the SEP
\* bit, or all keys when no key of the zone has it
ConsideredKeys(zone) ==
    {k \in 1..Len(zone.dnskeys) : HasSepKey(zone) => zone.dnskeys[k].flags % 2 = 1}

NoDsMatchesConsideredKey(zone) ==
    \A d \in 1..Len(zone.ds_records), k \in ConsideredKeys(zone) :
        ~DsMatchesKey(zone, zone.ds_records[d], zone.dnskeys[k])

OutOfWindowSignature(zone) ==
    /\ zone.dnskeys # <<>>
    /\ \E r \in 1..Len(zone.rrsigs) :
        /\ zone.rrsigs[r].type_covered = "DNSKEY"
        /\ (now > zone.rrsigs[r].expiration \/ now < zone.rrsigs[r].inception)

FirstInsecure ==
    IF \E i \in 1..ZoneCount : StatusOf(i) = "INSECURE"
    THEN CHOOSE i \in 1..ZoneCount :
             StatusOf(i) = "INSECURE" /\ \A j \in 1..(i - 1) : StatusOf(j) # "INSECURE"
    ELSE 0

\* C4: when validate_chain returns a chain whose overall_status is INSECURE,
\* some zone is INSECURE and no zone before the first INSECURE zone is BOGUS.
C4_InsecureChainHasInsecureZone ==
    (Returned /\ chain.overall_status = "INSECURE") =>
        /\ FirstInsecure # 0
        /\ \A j \in 1..(FirstInsecure - 1) : StatusOf(j) # "BOGUS"

C4_Witness ==
    /\ Returned
    /\ chain.overall_status = "INSECURE"
    /\ ZoneCount = 3
    /\ StatusOf(2) = "SECURE"
    /\ StatusOf(3) = "INSECURE"

\* index of the first zone of the chain that is not SECURE, 0 if none
FirstNotSecure ==
    IF \E i \in 1..ZoneCount : StatusOf(i) # "SECURE"
    THEN CHOOSE i \in 1..ZoneCount :
             StatusOf(i) # "SECURE" /\ \A j \in 1..(i - 1) : StatusOf(j) = "SECURE"
    ELSE 0

\* C5, as claimed: a returned chain with a root zone and an overall_status
\* other than SECURE has the status of its first zone that is not SECURE.
C5_FirstNonSecureWins ==
    (Returned /\ HasRoot /\ chain.overall_status # "SECURE") =>
        /\ FirstNotSecure # 0
        /\ chain.overall_status = StatusOf(FirstNotSecure)

\* C5, amended: a returned chain with a root zone and an overall_status
\* other than SECURE is BOGUS when one of its zones is BOGUS, and has the
\* status of its first zone that is not SECURE otherwise.
C5_BogusWinsThenFirstNonSecure ==
    (Returned /\ HasRoot /\ chain.overall_status # "SECURE") =>
        /\ FirstNotSecure # 0
        /\ chain.overall_status =
              IF \E i \in 1..ZoneCount : StatusOf(i) = "BOGUS"
              THEN "BOGUS" ELSE StatusOf(FirstNotSecure)

C5_Witness ==
    /\ Returned
    /\ ZoneCount = 3
    /\ StatusOf(1) = "SECURE"
    /\ StatusOf(2) = "INSECURE"
    /\ StatusOf(3) = "BOGUS"
    /\ chain.overall_status = "BOGUS"


----------------------------------------------------------------------------
(* Properties of the zone list and of the hierarchy *)

RootFirstLinked(zs) ==
    /\ Len(zs) > 0 =>
          /\ zs[1].name = RootName
          /\ zs[1].parent = NoParent
          /\ zs[1].ds_records = <<>>
    /\ \A i \in 2..Len(zs) : zs[i].parent = zs[i - 1].name

\* the target in trailing-dot form
TargetName ==
    IF RStripDots(domain) = <<>> THEN RootName ELSE RStripDots(domain) \o <<".">>

\* C6: the zone list that query_zone_chain builds is root-first and
\* target-last for every domain and every outcome of the queries: its first
\* zone is "." without parent and without DS records, every later zone has
\* the name of the zone before it as parent, and the last zone of the
\* finished list is the target.
C6_ZoneListRootFirstParentLinked ==
    /\ RootFirstLinked(zones)
    /\ RootFirstLinked(chain.zones)
    /\ (pc = "querying" /\ Len(zones) = Len(hierarchy))
          => zones[Len(zones)].name = TargetName
    /\ (Returned /\ malformed = {})
          => /\ Len(chain.zones) = Len(hierarchy)
             /\ chain.zones[Len(chain.zones)].name = TargetName

C6_Witness ==
    /\ pc = "querying"
    /\ Len(zones) = Len(hierarchy)
    /\ Len(zones) >= 3
    /\ zones[2].dnskeys # <<>>
    /\ zones[2].ds_records = <<>>
    /\ zones[3].name \in nxnames

Dots(s) == Cardinality({i \in 1..Len(s) : s[i] = "."})

\* the domain written without a trailing dot
Bare(d) == IF EndsWithDot(d) THEN SubSeq(d, 1, Len(d) - 1) ELSE d

\* the domain consists of non-empty labels
NonEmptyLabels(d) ==
    LET b == Bare(d)
    IN  /\ Len(b) > 0
        /\ b[1] # "."
        /\ b[Len(b)] # "."
        /\ \A i \in 1..(Len(b) - 1) : ~(b[i] = "." /\ b[i + 1] = ".")

LabelCount(d) == Dots(Bare(d)) + 1

\* the suffix of j labels of a domain of non-empty labels
SuffixOfLabels(b, j) ==
    LET p == CHOOSE p \in 1..Len(b) :
                 /\ p = 1 \/ b[p - 1] = "."
                 /\ Dots(SubSeq(b, p, Len(b))) = j - 1
    IN  SubSeq(b, p, Len(b))

\* C7: for a domain of k non-empty labels get_zone_hierarchy returns k+1
\* names: "." first, then the suffixes of 1, 2, ..., k labels, each with a
\* trailing dot, the last being the whole domain; no name occurs twice.
C7_HierarchyIsRootThenSuffixes ==
    (pc = "hier" /\ NonEmptyLabels(domain)) =>
        /\ Len(hierarchy) = LabelCount(domain) + 1
        /\ hierarchy[1] = RootName
        /\ \A j \in 1..LabelCount(domain) :
              hierarchy[j + 1] = SuffixOfLabels(Bare(domain), j) \o <<".">>
        /\ hierarchy[Len(hierarchy)] = Bare(domain) \o <<".">>
        /\ \A i, j \in 1..Len(hierarchy) : i # j => hierarchy[i] # hierarchy[j]

C7_Witness ==
    /\ pc = "hier"
    /\ NonEmptyLabels(domain)
    /\ LabelCount(domain) = 6
    /\ Len(hierarchy) = 7

\* C8: get_zone_hierarchy gives the same list for a domain with and without
\* its trailing dot, and for the domain normalised to trailing-dot form
\* once or twice.
C8_HierarchyIgnoresTrailingDot ==
    pc = "hier" =>
        /\ GetZoneHierarchy(Normalise(domain)) = hierarchy
        /\ GetZoneHierarchy(Normalise(Normalise(domain))) = hierarchy
        /\ ~EndsWithDot(domain) => GetZoneHierarchy(domain \o <<".">>) = hierarchy
        /\ EndsWithDot(domain) => GetZoneHierarchy(Bare(domain)) = hierarchy

C8_Witness ==
    /\ pc = "hier"
    /\ ~EndsWithDot(domain)
    /\ NonEmptyLabels(domain)
    /\ Len(hierarchy) = 4
    /\ GetZoneHierarchy(domain \o <<".">>) = hierarchy

\* C9, as claimed: when the queries for a zone that validation reaches
\* answer NXDOMAIN, the zone is not reported INSECURE, and the chain is
\* INDETERMINATE with a reason that names the zone.
C9_NxdomainIsIndeterminate ==
    Returned =>
        \A i \in 1..ZoneCount :
            (/\ chain.zones[i].name \in nxnames
             /\ \A j \in 1..(i - 1) : StatusOf(j) = "SECURE")
            => /\ StatusOf(i) # "INSECURE"
               /\ chain.overall_status = "INDETERMINATE"
               /\ chain.overall_reason.zone = chain.zones[i].name

\* C10, as claimed: when a DNSKEY answer holds a record that cannot be
\* parsed, validate_chain still returns a chain with every zone of the
\* hierarchy, classified from the records that parsed, and does not report
\* a failed DNS query.
C10_MalformedRecordIsDropped ==
    (Returned /\ malformed # {}) =>
        /\ ZoneCount = Len(hierarchy)
        /\ chain.overall_reason.text # "DNS query failed"

----------------------------------------------------------------------------
(* Properties of check_consistency *)

Checked == pc = "checked"

\* the servers check_consistency queries: nameservers[:max_servers]
QueriedReplies ==
    SubSeq(ns_replies, 1,
           IF Len(ns_replies) < MaxServers THEN Len(ns_replies) ELSE MaxServers)

\* what a server sent: it responded, the key tags of its DNSKEYs, an RRSIG
Responding(reply) == reply.kind = "answer"
ReturnedKeyTags(reply) ==
    UNION {{KeyId(reply.rrsets[i].rdatas[k]) : k \in 1..Len(reply.rrsets[i].rdatas)} :
              i \in {j \in 1..Len(reply.rrsets) : reply.rrsets[j].rdtype = "DNSKEY"}}
ReturnedRrsig(reply) ==
    \E i \in 1..Len(reply.rrsets) : reply.rrsets[i].rdtype = "RRSIG"

SameKeyTagsEverywhere ==
    \A i, j \in 1..Len(QueriedReplies) :
        (Responding(QueriedReplies[i]) /\ Responding(QueriedReplies[j]))
            => ReturnedKeyTags(QueriedReplies[i]) = ReturnedKeyTags(QueriedReplies[j])

\* C11: is_consistent is true exactly when every responding server
\* returned the same set of DNSKEY key tags and at least one RRSIG, and it
\* is what the responding servers alone would give.
C11_ConsistentIffSameKeysAndSigned ==
    Checked =>
        /\ zones[1].consistency[1].is_consistent <=>
               /\ SameKeyTagsEverywhere
               /\ \A i \in 1..Len(QueriedReplies) :
                      Responding(QueriedReplies[i]) => ReturnedRrsig(QueriedReplies[i])
        /\ zones[1].consistency[1].is_consistent =
               CheckConsistency(CheckedZone,
                   NsList(SelectSeq(QueriedReplies, Responding))).is_consistent

----------------------------------------------------------------------------
(* The consistency result and the validation *)

\* the values the consistency field of a zone can carry: absent, the
\* result for no server found, for an unsigned server, for a signed one
ConsistencyValues ==
    {<<>>,
     <<CheckConsistency(CheckedZone, <<>>)>>,
     <<CheckConsistency(CheckedZone, NsList(<<ReplyUnsigned(<<KSKb>>)>>))>>,
     <<CheckConsistency(CheckedZone, NsList(<<ReplySigned(<<KSKb>>)>>))>>}

WithConsistency(zs, cv) == [i \in 1..Len(zs) |-> [zs[i] EXCEPT !.consistency = cv]]

SameVerdict(c1, c2) ==
    /\ c1.overall_status = c2.overall_status
    /\ c1.overall_reason = c2.overall_reason
    /\ Len(c1.zones) = Len(c2.zones)
    /\ \A i \in 1..Len(c1.zones) :
           /\ c1.zones[i].status = c2.zones[i].status
           /\ c1.zones[i].status_reason = c2.zones[i].status_reason

\* the step that validates the zones query_zone_chain returned
ValidationStep ==
    pc = "querying" /\ pc' = "done" /\ Len(zones) = Len(hierarchy)

\* C12: a validation of the same DNSKEY, DS and RRSIG records under any
\* other consistency results gives every zone and the chain the same
\* status and reason.
C12_ConsistencyNeverChangesStatus ==
    [][ValidationStep =>
          \A cv \in ConsistencyValues :
              SameVerdict(ValidateChain(chain, WithConsistency(zones, cv), now'),
                          chain')]_vars

\* a zone whose servers disagree with the signing rule is SECURE
C12_Witness ==
    /\ Returned
    /\ \E i \in 1..Len(chain.zones) :
           /\ chain.zones[i].consistency # <<>>
           /\ ~chain.zones[i].consistency[1].is_consistent
           /\ chain.zones[i].status = "SECURE"
    /\ \E i \in 1..Len(chain.zones) :
           /\ chain.zones[i].consistency # <<>>
           /\ chain.zones[i].consistency[1].is_consistent

----------------------------------------------------------------------------
(* RRSIG validity window *)

\* the RRSIGs of the returned chain that _validate_rrsig_timing classified
TimedRrsigs ==
    {<<i, r>> \in (1..ZoneCount) \X (1..(MaxSigs + 1)) :
        /\ r <= Len(chain.zones[i].rrsigs)
        /\ chain.zones[i].rrsigs[r].type_covered = "DNSKEY"
        /\ chain.zones[i].rrsigs[r].is_valid # "None"}

\* C13: an RRSIG whose expiration is the current time is classified as
\* expired, and one whose inception is the current time is not classified
\* as not yet valid.
C13_WindowBoundariesInclusive ==
    Returned =>
        \A p \in TimedRrsigs :
            LET rrsig == chain.zones[p[1]].rrsigs[p[2]]
            IN  /\ rrsig.expiration = now =>
                       /\ rrsig.is_valid = "False"
                       /\ rrsig.validation_error = "Signature expired"
                /\ rrsig.inception = now =>
                       rrsig.validation_error # "Signature not yet valid"

----------------------------------------------------------------------------
(* Resolver configuration *)

\* C14: the queries of a validation all go to the nameservers configured
\* when it started, and chain.resolver_used names the nameservers that
\* were queried, whatever set_nameservers calls happen meanwhile.
C14_ValidationUsesResolverSnapshot ==
    pc \in {"querying", "done"} =>
        \A q \in queried : JoinComma(q) = chain.resolver_used

----------------------------------------------------------------------------
(* The root zone *)

LowerZonesUnclassified == \A i \in 2..ZoneCount : StatusOf(i) = "UNKNOWN"

\* C15: a root zone without DNSKEY records gives a chain that is
\* INDETERMINATE with the reason that the DNS query failed, and no lower
\* zone is classified.
C15_RootWithoutKeysIsIndeterminate ==
    (Returned /\ HasRoot /\ chain.zones[1].dnskeys = <<>>) =>
        /\ chain.overall_status = "INDETERMINATE"
        /\ chain.overall_reason.text = "DNS query failed"
        /\ LowerZonesUnclassified

\* the root passed _validate_root_zone with the given reason: it is
\* SECURE for that reason, or its RRSIG timing made it BOGUS afterwards
RootPassedWith(text) ==
    /\ chain.overall_reason.text # "Root validation failed"
    /\ \/ StatusOf(1) = "SECURE" /\ chain.zones[1].status_reason.text = text
       \/ /\ StatusOf(1) = "BOGUS"
          /\ chain.zones[1].status_reason.text \in
                 {"DNSKEY RRSIG expired on", "DNSKEY RRSIG not valid until"}

\* C16: a root with DNSKEYs passes when a DNSKEY matches a trust anchor;
\* otherwise it passes with "trust anchor verification skipped" when a
\* DNSKEY has the SEP bit; otherwise the root and the chain are BOGUS and
\* no lower zone is classified.
C16_RootAnchorThenSepThenBogus ==
    (Returned /\ HasRoot /\ chain.zones[1].dnskeys # <<>>) =>
        IF TrustAnchorMatched(chain.zones[1])
        THEN RootPassedWith("Root DNSKEY matches trust anchor")
        ELSE IF HasSepKey(chain.zones[1])
        THEN RootPassedWith("Root has KSK(s) (trust anchor verification skipped)")
        ELSE /\ StatusOf(1) = "BOGUS"
             /\ chain.overall_status = "BOGUS"
             /\ chain.overall_reason.text = "Root validation failed"
             /\ LowerZonesUnclassified

\* a root with only a non-SEP key that matches no anchor, above two zones
C16_Witness ==
    /\ Returned /\ HasRoot /\ ZoneCount = 3
    /\ chain.zones[1].dnskeys # <<>>
    /\ ~TrustAnchorMatched(chain.zones[1])
    /\ ~HasSepKey(chain.zones[1])
    /\ chain.zones[2].dnskeys # <<>>
    /\ StatusOf(1) = "BOGUS"

----------------------------------------------------------------------------
(* RRSIG timing and the chain *)

\* _validate_rrsig_timing was called for the zone at index i: the root
\* passed _validate_root_zone, a lower zone had a DS record that matched
TimingChecked(i) ==
    IF i = 1 THEN chain.overall_reason.text # "Root validation failed"
    ELSE chain.zones[i].ds_validated

\* the DNSKEY-covering RRSIGs of the zone that are expired or not yet valid
OutOfWindow(i) ==
    {r \in 1..Len(chain.zones[i].rrsigs) :
        /\ chain.zones[i].rrsigs[r].type_covered = "DNSKEY"
        /\ \/ IsExpired(chain.zones[i].rrsigs[r], now)
           \/ IsNotYetValid(chain.zones[i].rrsigs[r], now)}

TimingVerdict(i) ==
    /\ StatusOf(i) = "BOGUS"
    /\ chain.zones[i].status_reason.text \in
           {"DNSKEY RRSIG expired on", "DNSKEY RRSIG not valid until"}
    /\ chain.overall_status = "BOGUS"
    /\ \A j \in (i + 1)..ZoneCount : StatusOf(j) = "UNKNOWN"

\* C17, as claimed: where RRSIG timing is checked, every DNSKEY-covering
\* RRSIG that is expired or not yet valid gets is_valid = false, the zone
\* and the chain become BOGUS and no later zone is classified.
C17_EveryOutOfWindowRrsigMarked ==
    (Returned /\ HasRoot) =>
        \A i \in 1..ZoneCount :
            (TimingChecked(i) /\ OutOfWindow(i) # {}) =>
                /\ \A r \in OutOfWindow(i) : chain.zones[i].rrsigs[r].is_valid = "False"
                /\ TimingVerdict(i)

\* C17, amended: where RRSIG timing is checked and some DNSKEY-covering
\* RRSIG is expired or not yet valid, the first such RRSIG in record order
\* gets is_valid = false, the RRSIGs after it are not examined, the zone
\* and the chain become BOGUS and no later zone is classified; a zone is
\* BOGUS for its timing only if it has such an RRSIG.
C17_FirstOutOfWindowRrsigMarked ==
    (Returned /\ HasRoot) =>
        \A i \in 1..ZoneCount :
            /\ (TimingChecked(i) /\ OutOfWindow(i) # {}) =>
                   LET first == CHOOSE r \in OutOfWindow(i) :
                                    \A q \in OutOfWindow(i) : r <= q
                   IN  /\ chain.zones[i].rrsigs[first].is_valid = "False"
                       /\ chain.zones[i].rrsigs[first].validation_error \in
                              {"Signature expired", "Signature not yet valid"}
                       /\ \A r \in (first + 1)..Len(chain.zones[i].rrsigs) :
                              chain.zones[i].rrsigs[r].is_valid = "None"
                       /\ TimingVerdict(i)
            /\ chain.zones[i].status_reason.text \in
                   {"DNSKEY RRSIG expired on", "DNSKEY RRSIG not valid until"}
                   => OutOfWindow(i) # {}

\* a zone below the root with two RRSIGs out of their window
C17_Witness ==
    /\ Returned /\ HasRoot /\ ZoneCount = 3
    /\ TimingChecked(2)
    /\ Cardinality(OutOfWindow(2)) = 2
    /\ StatusOf(2) = "BOGUS"

----------------------------------------------------------------------------
(* Zones below the root *)

\* the loop of validate_chain came to the zone at index i > 1: the root
\* passed, and no zone before it made validation return
Reached(i) ==
    /\ Returned /\ HasRoot /\ i \in 2..ZoneCount
    /\ \A j \in 1..(i - 1) : StatusOf(j) \notin {"BOGUS", "UNKNOWN"}

\* C18: a zone below the root that validation reaches and that has no DS
\* records is INSECURE, with or without DNSKEYs; the chain is then not
\* SECURE; the next zone is classified with this zone as its parent; with
\* DNSKEYs the reason depends on whether the parent is SECURE.
C18_NoDsIsInsecure ==
    \A i \in 2..ZoneCount :
        (Reached(i) /\ chain.zones[i].ds_records = <<>>) =>
            /\ StatusOf(i) = "INSECURE"
            /\ chain.overall_status # "SECURE"
            /\ chain.zones[i].status_reason.text =
                   IF chain.zones[i].dnskeys = <<>>
                   THEN "No DNSSEC (unsigned delegation)"
                   ELSE IF StatusOf(i - 1) = "SECURE"
                   THEN "No DS record in parent (insecure delegation)"
                   ELSE "Parent zone is not secure"
            /\ i < ZoneCount => StatusOf(i + 1) # "UNKNOWN"

\* two zones with DNSKEYs and no DS below a SECURE root
C18_Witness ==
    /\ Reached(3)
    /\ StatusOf(1) = "SECURE"
    /\ chain.zones[2].ds_records = <<>> /\ chain.zones[2].dnskeys # <<>>
    /\ chain.zones[3].ds_records = <<>> /\ chain.zones[3].dnskeys # <<>>
    /\ chain.zones[3].status_reason.text = "Parent zone is not secure"

\* C19: a zone below the root that validation reaches and that has DS
\* records none of which matches a DNSKEY of the zone (it may have no
\* DNSKEY at all) is BOGUS, the chain is BOGUS and no later zone is
\* classified, whether the zones above are SECURE or INSECURE.
C19_UnmatchedDsIsBogus ==
    \A i \in 2..ZoneCount :
        (/\ Reached(i)
         /\ chain.zones[i].ds_records # <<>>
         /\ NoDsMatchesAnyKey(chain.zones[i])) =>
            /\ StatusOf(i) = "BOGUS"
            /\ chain.overall_status = "BOGUS"
            /\ \A j \in (i + 1)..ZoneCount : StatusOf(j) = "UNKNOWN"

\* DS records that match none of the DNSKEYs of a zone below an INSECURE one
C19_Witness ==
    /\ Reached(3)
    /\ StatusOf(2) = "INSECURE"
    /\ chain.zones[3].ds_records # <<>> /\ chain.zones[3].dnskeys # <<>>
    /\ NoDsMatchesAnyKey(chain.zones[3])
    /\ StatusOf(3) = "BOGUS"

\* C20: for a zone below the root that validation reaches and that has
\* DNSKEYs, one DS record matching one DNSKEY of the zone (key tag,
\* algorithm and digest) makes ds_validated true, also when the matching
\* DNSKEY has no SEP bit while another DNSKEY of the zone has it.
C20_AnyDsMatchValidates ==
    \A i \in 2..ZoneCount :
        (/\ Reached(i)
         /\ chain.zones[i].dnskeys # <<>>
         /\ chain.zones[i].ds_records # <<>>
         /\ ~NoDsMatchesAnyKey(chain.zones[i])) =>
            chain.zones[i].ds_validated

\* C21: a DS record whose digest type is not 1, 2 or 4 matches no DNSKEY,
\* whatever its digest field holds: in a returned chain no such DS record
\* names a key it validates, and a zone whose DS records are all of such
\* a type is not DS-validated.
C21_UnknownDigestTypeNeverMatches ==
    Returned =>
        \A i \in 1..ZoneCount :
            /\ \A k \in 1..Len(chain.zones[i].ds_records) :
                   chain.zones[i].ds_records[k].digest_type \notin {1, 2, 4} =>
                       chain.zones[i].ds_records[k].validates_key = None
            /\ (\A k \in 1..Len(chain.zones[i].ds_records) :
                   chain.zones[i].ds_records[k].digest_type \notin {1, 2, 4}) =>
                       ~chain.zones[i].ds_validated

\* a zone that has a DS match and passed the RRSIG timing check
DsMatchedAndTimed(i) ==
    /\ Returned /\ HasRoot /\ i \in 2..ZoneCount
    /\ chain.zones[i].ds_validated
    /\ StatusOf(i) # "BOGUS"

\* the zone has an RRSIG that covers DNSKEY and whose key tag is the tag a
\* DS record matched or the tag of a DNSKEY of the zone
SignedByKnownKey(zone) ==
    \E r \in 1..Len(zone.rrsigs) :
        /\ zone.rrsigs[r].type_covered = "DNSKEY"
        /\ \/ \E k \in 1..Len(zone.ds_records) :
                  zone.ds_records[k].validates_key = zone.rrsigs[r].key_tag
           \/ HasKeyByTag(zone, zone.rrsigs[r].key_tag)

\* C22: for a zone below the root with a DS match and valid RRSIG timing,
\* dnskey_validated is true exactly when some RRSIG covering DNSKEY is by
\* the DS-matched key or by a DNSKEY of the zone; the zone is SECURE
\* "Chain validated" when it is true and SECURE "DS validated (RRSIG check
\* partial)" when it is false; a zone is INDETERMINATE only when
\* ds_validated is false.
C22_DnskeyValidatedIffSignedByKnownKey ==
    /\ \A i \in 2..ZoneCount :
           DsMatchedAndTimed(i) =>
               /\ chain.zones[i].dnskey_validated = SignedByKnownKey(chain.zones[i])
               /\ StatusOf(i) = "SECURE"
               /\ chain.zones[i].status_reason.text =
                      IF chain.zones[i].dnskey_validated THEN "Chain validated"
                      ELSE "DS validated (RRSIG check partial)"
    /\ Returned =>
           \A i \in 1..ZoneCount :
               StatusOf(i) = "INDETERMINATE" => ~chain.zones[i].ds_validated

\* a zone on which _validate_ds_to_dnskey matched DS records with DNSKEYs
DsMatchingRan(i) ==
    /\ Reached(i)
    /\ chain.zones[i].dnskeys # <<>>
    /\ chain.zones[i].ds_records # <<>>

\* C23: in a returned chain, validates_key of a DS record is absent or is
\* the key tag of a DNSKEY of the zone that has the tag, the algorithm and
\* the digest of the DS record; after DS matching on a zone it is set on
\* every DS record that matches a candidate key, and it is absent on all
\* DS records of a zone in which no DS record matched.
C23_ValidatesKeyNamesMatchingKey ==
    Returned =>
        \A i \in 1..ZoneCount :
            /\ \A d \in 1..Len(chain.zones[i].ds_records) :
                   chain.zones[i].ds_records[d].validates_key # None =>
                       \E k \in 1..Len(chain.zones[i].dnskeys) :
                           /\ chain.zones[i].dnskeys[k].key_tag =
                                  chain.zones[i].ds_records[d].validates_key
                           /\ DsMatchesKey(chain.zones[i], chain.zones[i].ds_records[d],
                                           chain.zones[i].dnskeys[k])
            /\ DsMatchingRan(i) =>
                   \A d \in 1..Len(chain.zones[i].ds_records) :
                       (\E k \in ConsideredKeys(chain.zones[i]) :
                            DsMatchesKey(chain.zones[i], chain.zones[i].ds_records[d],
                                         chain.zones[i].dnskeys[k])) =>
                           chain.zones[i].ds_records[d].validates_key # None
            /\ ~chain.zones[i].ds_validated =>
                   \A d \in 1..Len(chain.zones[i].ds_records) :
                       chain.zones[i].ds_records[d].validates_key = None

\* a zone with two DS records that both match its key, and one with a DS
\* record that matches next to one that does not
C23_Witness ==
    /\ DsMatchingRan(2) /\ DsMatchingRan(3)
    /\ Len(chain.zones[2].ds_records) = 2
    /\ chain.zones[2].ds_records[1].validates_key # None
    /\ chain.zones[2].ds_records[2].validates_key # None
    /\ Len(chain.zones[3].ds_records) = 2
    /\ chain.zones[3].ds_records[1].validates_key # None
    /\ chain.zones[3].ds_records[2].validates_key = None

----------------------------------------------------------------------------
(* The issues of a consistency result *)

\* the responses check_consistency collected, and the first of them that
\* came from a responding server
CheckedResponses == zones[1].consistency[1].server_responses
FirstResponding ==
    CHOOSE j \in 1..Len(CheckedResponses) :
        /\ CheckedResponses[j].responded
        /\ \A m \in 1..(j - 1) : ~CheckedResponses[m].responded

\* C24: every issue about missing or extra keys names a responding server
\* whose set of DNSKEY key tags differs from the reference set, that of
\* the first responding server, whichever servers did not respond.
C24_KeyIssueNamesDivergentServer ==
    Checked =>
        \A n \in 1..Len(zones[1].consistency[1].issues) :
            zones[1].consistency[1].issues[n].text \in {"missing keys", "has extra keys"} =>
                \E j \in 1..Len(CheckedResponses) :
                    /\ CheckedResponses[j].server_name =
                           zones[1].consistency[1].issues[n].server
                    /\ CheckedResponses[j].responded
                    /\ Unique(CheckedResponses[j].dnskey_tags) #
                           Unique(CheckedResponses[FirstResponding].dnskey_tags)

----------------------------------------------------------------------------
(* The queries of query_zone_chain *)

\* the queries that C25 states for the first n zones of the hierarchy
RECURSIVE ClaimedQueries(_)
ClaimedQueries(n) ==
    IF n = 0 THEN <<>>
    ELSE ClaimedQueries(n - 1)
         \o <<<<"DNSKEY", hierarchy[n]>>>>
         \o (IF hierarchy[n] # RootName THEN <<<<"DS", hierarchy[n]>>>> ELSE <<>>)
         \o (IF n = Len(hierarchy) THEN <<<<"additional", domain>>>> ELSE <<>>)
         \o (IF hierarchy[n] # RootName THEN <<<<"consistency", hierarchy[n]>>>> ELSE <<>>)

\* query_zone_chain was left by an exception of query_dnskeys
LeftByException == pc = "done" /\ Len(zones) < Len(hierarchy)

C26_ErrorMeansNotResponded ==
    Checked =>
        \A j \in 1..Len(CheckedResponses) :
            /\ CheckedResponses[j].error # "None" => ~CheckedResponses[j].responded
            /\ CheckedResponses[j].responded => CheckedResponses[j].error = "None"

----------------------------------------------------------------------------
(* The statuses along the returned chain *)

\* C27: in a returned chain a zone below the root is SECURE only if the
\* zone just before it is SECURE.
C27_SecureOnlyBelowSecure ==
    Returned =>
        \A i \in 2..ZoneCount :
            StatusOf(i) = "SECURE" => StatusOf(i - 1) = "SECURE"

\* C29: in a returned chain chain_complete is true only for a zone whose
\* status is SECURE; a zone that ends BOGUS, the root included, has
\* chain_complete false.
C29_ChainCompleteOnlyIfSecure ==
    Returned =>
        \A i \in 1..ZoneCount :
            chain.zones[i].chain_complete => StatusOf(i) = "SECURE"

\* C28: validate_chain returns a chain whatever the queries gave, an
\* exception of query_zone_chain included; the returned chain's
\* overall_status is not UNKNOWN, and a zone of it is UNKNOWN only if a
\* zone before it is BOGUS.
C28_ReturnsClassifiedChain ==
    Returned =>
        /\ chain.target_domain = domain
        /\ chain.overall_status # "UNKNOWN"
        /\ LeftByException =>
               chain.overall_status = "INDETERMINATE" /\ chain.zones = <<>>
        /\ \A i \in 1..ZoneCount :
               StatusOf(i) = "UNKNOWN" =>
                   \E j \in 1..(i - 1) : StatusOf(j) = "BOGUS"

\* a chain returned with an unclassified zone below a BOGUS one that is
\* not the root
C28_Witness ==
    /\ Returned /\ ZoneCount = 3
    /\ StatusOf(1) = "SECURE" /\ StatusOf(2) = "BOGUS" /\ StatusOf(3) = "UNKNOWN"
    /\ chain.overall_status = "BOGUS"

----------------------------------------------------------------------------
(* The validation workers of the application *)

\* the workers that were started and have not finished
InFlight == {w \in 1..Len(workers) : workers[w].at # "finished"}

\* C30: at most one validation worker is in flight at any time, also when
\* a domain is submitted after a worker was started and before its
\* _set_loading(True) was applied; _is_loading is true whenever a worker
\* is past that call and has not finished, and false once no worker is in
\* flight.
C30_AtMostOneWorkerInFlight ==
    /\ Cardinality(InFlight) <= 1
    /\ (\E w \in InFlight : workers[w].at \in {"validating", "validated"}) => is_loading
    /\ InFlight = {} => ~is_loading
====
